---- MODULE Spec2Model ----
(***************************************************************************)
(* Model of qr_code_scanner.py: capture_frame, scan_qr_code and the        *)
(* poll / decode / log loop of log_laps.                                   *)
(*                                                                         *)
(* A frame is modelled by what pyzbar's decode finds in it: the sequence   *)
(* of the data bytes of the symbols (one byte per symbol).  A log entry is *)
(* one completed f.write call, the pair <<current_time, qr_code>>.         *)
(* print is a reliable console; KeyboardInterrupt can be raised between    *)
(* any two statements.                                                     *)
(***************************************************************************)
EXTENDS Naturals, Sequences, FiniteSets

\* ---- bounds of the model ----
MaxIter == 2
MaxObjs == 2

\* data bytes a symbol may carry: "A", "B" and a byte that is not UTF-8
Bytes == {65, 66, 255}

\* content of the log file before log_laps runs (entries of prior runs)
PriorLogs == {<< >>, << <<0, "A">> >>}

VARIABLES
    pc,            \* position in log_laps
    fileOpen,      \* f is open
    opens,         \* number of open() calls that succeeded
    log,           \* the log file: sequence of <<time, payload>>
    origin,        \* for each entry log_laps wrote: <<iteration, index in qr_codes>>
    frame,         \* local frame
    qr_codes,      \* local qr_codes
    idx,           \* position of the for loop in qr_codes
    current_time,  \* local current_time
    now,           \* the wall clock, in seconds
    iter,          \* number of capture_frame calls made (the current iteration)
    hist,          \* per iteration: what happened in it
    console,       \* what print has written
    err,           \* the exception being handled
    intAt,         \* where KeyboardInterrupt was raised ("none": not raised)
    initialLog     \* the log file as it was when log_laps was called

vars == <<pc, fileOpen, opens, log, origin, frame, qr_codes, idx, current_time,
          now, iter, hist, console, err, intAt, initialLog>>

\* ---- helpers ----
SeqsUpTo(S, n) == UNION {[1..k -> S] : k \in 0..n}

Frames == SeqsUpTo(Bytes, MaxObjs)

IsPrefix(s, t) == Len(s) <= Len(t) /\ SubSeq(t, 1, Len(s)) = s

\* bytes.decode('utf-8') on a one-byte string
Utf8Valid(b) == b < 128
Utf8Decode(b) == IF b = 65 THEN "A" ELSE "B"

\* scan_qr_code raises UnicodeDecodeError when a symbol's data is not UTF-8
scan_qr_code_raises(fr) == \E i \in DOMAIN fr : ~Utf8Valid(fr[i])
scan_qr_code(fr) == [i \in DOMAIN fr |-> Utf8Decode(fr[i])]

\* record of one iteration: outcome of capture_frame, whether scan_qr_code
\* was called, what it returned, whether sleep and the error report ran
NewIter == [capture |-> "fail", scanned |-> FALSE, codes |-> << >>,
            slept |-> FALSE, reported |-> FALSE]

cancelled == intAt # "none"

Init ==
    /\ pc = "start"
    /\ fileOpen = FALSE
    /\ opens = 0
    /\ log \in PriorLogs
    /\ initialLog = log
    /\ origin = << >>
    /\ frame = << >>
    /\ qr_codes = << >>
    /\ idx = 0
    /\ current_time = 0
    /\ now = 0
    /\ iter = 0
    /\ hist = << >>
    /\ console = << >>
    /\ err = "none"
    /\ intAt = "none"

\* ---- log_laps ----

\* open(qr_log_file, 'w') instead of 'a': the file is truncated
open_truncate ==
    /\ pc = "start"
    /\ pc' = "capture"
    /\ fileOpen' = TRUE
    /\ opens' = opens + 1
    /\ log' = << >>
    /\ UNCHANGED <<origin, frame, qr_codes, idx, current_time, now, iter, hist,
                   console, err, intAt, initialLog>>

\* line 25: open(qr_log_file, 'a') succeeds; existing content is kept
open_ok ==
    /\ pc = "start"
    /\ pc' = "capture"
    /\ fileOpen' = TRUE
    /\ opens' = opens + 1
    /\ log' = log
    /\ UNCHANGED <<origin, frame, qr_codes, idx, current_time, now, iter, hist,
                   console, err, intAt, initialLog>>

\* the failure of open swallowed: the loop is entered without a file
open_fail_ignored ==
    /\ pc = "start"
    /\ pc' = "capture"
    /\ UNCHANGED <<fileOpen, opens, log, origin, frame, qr_codes, idx,
                   current_time, now, iter, hist, console, err, intAt, initialLog>>

\* line 25: open raises OSError, which leaves log_laps
open_fail ==
    /\ pc = "start"
    /\ pc' = "aborted"
    /\ UNCHANGED <<fileOpen, opens, log, origin, frame, qr_codes, idx,
                   current_time, now, iter, hist, console, err, intAt, initialLog>>

\* lines 28, 8-13: capture_frame returns a frame
capture_frame_ok ==
    /\ pc = "capture"
    /\ iter < MaxIter
    /\ \E fr \in Frames : frame' = fr
    /\ iter' = iter + 1
    /\ hist' = Append(hist, [NewIter EXCEPT !.capture = "ok"])
    /\ pc' = "scan"
    /\ UNCHANGED <<fileOpen, opens, log, origin, qr_codes, idx, current_time,
                   now, console, err, intAt, initialLog>>

\* capture_frame without the check of ret: the failed read goes on to the scan
capture_frame_unchecked ==
    /\ pc = "capture"
    /\ iter < MaxIter
    /\ iter' = iter + 1
    /\ hist' = Append(hist, NewIter)
    /\ frame' = << 65 >>
    /\ pc' = "scan"
    /\ UNCHANGED <<fileOpen, opens, log, origin, qr_codes, idx, current_time,
                   now, console, err, intAt, initialLog>>

\* lines 28, 11-12: ret is false, capture_frame raises Exception
capture_frame_fail ==
    /\ pc = "capture"
    /\ iter < MaxIter
    /\ iter' = iter + 1
    /\ hist' = Append(hist, NewIter)
    /\ err' = "Failed to capture frame from ESP32-CAM"
    /\ pc' = "report"
    /\ UNCHANGED <<fileOpen, opens, log, origin, frame, qr_codes, idx,
                   current_time, now, console, intAt, initialLog>>

\* line 29: scan_qr_code(frame) returns the payloads or raises
scan ==
    /\ pc = "scan"
    /\ IF scan_qr_code_raises(frame)
         THEN /\ err' = "UnicodeDecodeError"
              /\ pc' = "report"
              /\ hist' = [hist EXCEPT ![iter].scanned = TRUE]
              /\ UNCHANGED qr_codes
         ELSE /\ qr_codes' = scan_qr_code(frame)
              /\ hist' = [hist EXCEPT ![iter].scanned = TRUE,
                                      ![iter].codes = scan_qr_code(frame)]
              /\ pc' = "check"
              /\ UNCHANGED err
    /\ UNCHANGED <<fileOpen, opens, log, origin, frame, idx, current_time, now,
                   iter, console, intAt, initialLog>>

\* lines 30-32: if qr_codes: current_time = strftime(gmtime()); start the for loop
check ==
    /\ pc = "check"
    /\ IF qr_codes # << >>
         THEN /\ current_time' = now
              /\ idx' = 1
              /\ pc' = "write"
         ELSE /\ pc' = "sleep"
              /\ UNCHANGED <<current_time, idx>>
    /\ UNCHANGED <<fileOpen, opens, log, origin, frame, qr_codes, now, iter,
                   hist, console, err, intAt, initialLog>>

\* the file after f.write of one entry
write_entry(l, t, p) == Append(l, <<t, p>>)

\* the for loop stopping one payload early
for_next_skip_last(i) == IF i < Len(qr_codes) - 1 THEN "write" ELSE "sleep"

\* where the for loop goes after one payload
for_next(i) == IF i < Len(qr_codes) THEN "write" ELSE "sleep"

\* the for loop writing the first payload every time
qr_code_first(i) == qr_codes[1]

\* the loop variable qr_code at position i of the for loop
qr_code(i) == qr_codes[i]

\* lines 33-34: f.write and print of one payload, then the next one
write_ok ==
    /\ pc = "write"
    /\ log' = write_entry(log, current_time, qr_code(idx))
    /\ origin' = Append(origin, <<iter, idx>>)
    /\ console' = Append(console, <<"Lap logged", qr_code(idx), current_time>>)
    /\ idx' = idx + 1
    /\ pc' = for_next(idx)
    /\ UNCHANGED <<fileOpen, opens, frame, qr_codes, current_time, now, iter,
                   hist, err, intAt, initialLog>>

\* line 33: f.write raises OSError; nothing is appended
write_fail ==
    /\ pc = "write"
    /\ err' = "OSError"
    /\ pc' = "report"
    /\ UNCHANGED <<fileOpen, opens, log, origin, frame, qr_codes, idx,
                   current_time, now, iter, hist, console, intAt, initialLog>>

\* line 35: time.sleep(1)
sleep ==
    /\ pc = "sleep"
    /\ now' = now + 1
    /\ hist' = [hist EXCEPT ![iter].slept = TRUE]
    /\ pc' = "capture"
    /\ UNCHANGED <<fileOpen, opens, log, origin, frame, qr_codes, idx,
                   current_time, iter, console, err, intAt, initialLog>>

\* except Exception ending the loop
after_report_break == "stopped"

\* where the loop goes after except Exception
after_report == "capture"

\* lines 39-40: except Exception as e: print, and the while loop goes on
report ==
    /\ pc = "report"
    /\ console' = Append(console, <<"Error", err>>)
    /\ hist' = [hist EXCEPT ![iter].reported = TRUE]
    /\ err' = "none"
    /\ pc' = after_report
    /\ UNCHANGED <<fileOpen, opens, log, origin, frame, qr_codes, idx,
                   current_time, now, iter, intAt, initialLog>>

\* KeyboardInterrupt raised inside the try body (lines 28-35)
interrupt_in_try ==
    /\ pc \in {"capture", "scan", "check", "write", "sleep"}
    /\ intAt' = pc
    /\ pc' = "interrupt"
    /\ UNCHANGED <<fileOpen, opens, log, origin, frame, qr_codes, idx,
                   current_time, now, iter, hist, console, err, initialLog>>

\* f opened without the with block: nothing closes it
with_exit_leak == TRUE

\* the file handle after the with block is left
with_exit == FALSE

\* except KeyboardInterrupt without the break
after_interrupt_continue == "capture"

\* where log_laps goes after except KeyboardInterrupt
after_interrupt == "stopped"

\* except KeyboardInterrupt undoing the entries of the interrupted iteration
handle_interrupt_rollback ==
    /\ pc = "interrupt"
    /\ console' = Append(console, <<"Logging stopped.">>)
    /\ pc' = "stopped"
    /\ fileOpen' = FALSE
    /\ log' = SubSeq(log, 1, Len(log) -
                 Cardinality({k \in DOMAIN origin : origin[k][1] = iter}))
    /\ UNCHANGED <<opens, origin, frame, qr_codes, idx, current_time, now,
                   iter, hist, err, intAt, initialLog>>

\* lines 36-38: except KeyboardInterrupt: print, break; the with block closes f
handle_interrupt ==
    /\ pc = "interrupt"
    /\ console' = Append(console, <<"Logging stopped.">>)
    /\ pc' = after_interrupt
    /\ fileOpen' = IF after_interrupt = "stopped" THEN with_exit ELSE fileOpen
    /\ UNCHANGED <<opens, log, origin, frame, qr_codes, idx, current_time, now,
                   iter, hist, err, intAt, initialLog>>

\* KeyboardInterrupt raised outside the try body (in open, or in one of the
\* two handlers): it leaves log_laps uncaught; the with block closes f
interrupt_uncaught ==
    /\ pc \in {"start", "report", "interrupt"}
    /\ intAt' = IF intAt = "none" THEN pc ELSE intAt
    /\ pc' = "stopped"
    /\ fileOpen' = with_exit
    /\ UNCHANGED <<opens, log, origin, frame, qr_codes, idx, current_time, now,
                   iter, hist, console, err, initialLog>>

Next ==
    \/ open_ok
    \/ open_fail
    \/ capture_frame_ok
    \/ capture_frame_fail
    \/ scan
    \/ check
    \/ write_ok
    \/ write_fail
    \/ sleep
    \/ report
    \/ interrupt_in_try
    \/ handle_interrupt
    \/ interrupt_uncaught

Spec == Init /\ [][Next]_vars

\* ---- derived quantities ----

\* the loop is RUNNING (between the open and the exit of the while loop)
Running == {"capture", "scan", "check", "write", "sleep", "report"}

\* the entries appended to the log file by this run
Appended == SubSeq(log, Len(initialLog) + 1, Len(log))

\* number of entries written in iteration i
Written(i) == Cardinality({k \in DOMAIN origin : origin[k][1] = i})

\* total number of payloads returned by the scan_qr_code calls of iterations 1..i
RECURSIVE Returned(_)
Returned(i) == IF i = 0 THEN 0 ELSE Returned(i - 1) + Len(hist[i].codes)

\* the entries the iterations 1..i wrote, in iteration order: for each written
\* payload the pair of its timestamp in the log and the payload decode returned
RECURSIVE PayloadsLogged(_)
PayloadsLogged(i) ==
    IF i = 0 THEN << >>
    ELSE PayloadsLogged(i - 1) \o SubSeq(hist[i].codes, 1, Written(i))

\* number of "Error" messages on the console
Errors == Cardinality({k \in DOMAIN console : console[k][1] = "Error"})

\* ---- C1 ----
\* C1 (as claimed): once the loop has stopped, the number of entries appended
\* during the run equals the number of payloads returned by all scan_qr_code
\* calls of the run.
C1_LinesEqualPayloads ==
    pc = "stopped" => Len(Appended) = Returned(iter)

\* C1 (amended): in every iteration the entries appended are at most the
\* payloads scan_qr_code returned, and exactly as many once the iteration has
\* reached its sleep; so once the loop has stopped the entries appended are at
\* most the payloads returned, and equal to them when every iteration that
\* decoded payloads reached its sleep.
C1_LinesAtMostPayloads ==
    /\ \A i \in 1..iter :
         /\ Written(i) <= Len(hist[i].codes)
         /\ hist[i].slept => Written(i) = Len(hist[i].codes)
    /\ pc = "stopped" =>
         /\ Len(Appended) <= Returned(iter)
         /\ (\A i \in 1..iter : hist[i].codes # << >> => hist[i].slept)
               => Len(Appended) = Returned(iter)

C1_Witness ==
    /\ pc = "stopped"
    /\ iter = 2
    /\ hist[1].slept /\ Len(hist[1].codes) = 2 /\ Written(1) = 2
    /\ ~hist[2].slept /\ Len(hist[2].codes) = 2 /\ Written(2) = 1
    /\ Len(Appended) = 3

\* ---- C2 ----
\* C2: when capture_frame fails in iteration i, scan_qr_code is not called and
\* nothing is appended in iteration i, the error is reported (unless the
\* interrupt arrives first), and the step after the report starts nothing but
\* the capture call of iteration i+1 or the stop on cancellation.
C2_CaptureFailureSkipsIteration ==
    [][ /\ \A i \in 1..iter' :
             hist'[i].capture = "fail" =>
               /\ ~hist'[i].scanned
               /\ hist'[i].codes = << >>
               /\ Written(i)' = 0
               /\ ~hist'[i].slept
               /\ hist'[i].reported \/ (i = iter' /\ pc' = "report")
                                    \/ (i = iter' /\ intAt' = "report")
        /\ pc = "report" /\ hist[iter].capture = "fail" =>
             \/ pc' = "capture" /\ Errors' = Errors + 1 /\ log' = log /\ ~cancelled'
             \/ pc' = "stopped" /\ cancelled' /\ log' = log
        /\ pc = "capture" /\ iter > 0 /\ hist[iter].capture = "fail" =>
             \/ iter' = iter + 1 /\ pc' \in {"scan", "report"} /\ log' = log
             \/ pc' = "interrupt" /\ cancelled' /\ log' = log
      ]_vars

C2_Witness ==
    /\ iter = 2
    /\ hist[1].capture = "fail" /\ hist[1].reported /\ Written(1) = 0
    /\ hist[2].capture = "ok" /\ Written(2) = 1
    /\ Errors = 1

\* ---- C3 ----
\* C3 (as claimed): between any two consecutive capture_frame calls the loop
\* has slept: every iteration that was followed by another one ran its sleep.
C3_SleepBetweenCaptures ==
    \A i \in 1..iter : i < iter => hist[i].slept

\* ---- C4 ----
\* C4: once KeyboardInterrupt has been raised no further capture, decode, log
\* append or sleep happens and no iteration starts: the only steps left lead
\* to STOPPED, STOPPED is terminal, and the log keeps every entry it had.
C4_CancellationStops ==
    [][ /\ cancelled =>
             /\ pc' \in {"interrupt", "stopped"}
             /\ log' = log
             /\ iter' = iter
             /\ hist' = hist
             /\ now' = now
             /\ cancelled'
        /\ pc = "stopped" => FALSE
        /\ pc' = "stopped" => IsPrefix(log, log') /\ cancelled'
      ]_vars

C4_Witness ==
    /\ pc = "stopped"
    /\ intAt = "write"
    /\ iter = 2
    /\ Written(2) = 1
    /\ Len(Appended) = 3

C6_OnlyCancellationStops ==
    [][ /\ pc \in Running /\ pc' \notin Running => cancelled'
        /\ err' # "none" /\ err = "none" => pc' = "report" /\ pc \in Running
        /\ pc = "report" /\ ~cancelled' =>
             pc' = "capture" /\ Errors' = Errors + 1 /\ fileOpen'
      ]_vars

C6_Witness ==
    /\ pc = "capture"
    /\ ~cancelled
    /\ fileOpen
    /\ iter = 2
    /\ console = << <<"Error", "UnicodeDecodeError">>,
                    <<"Lap logged", "A", 0>>,
                    <<"Error", "OSError">> >>

\* ---- C7 ----
\* C7: every entry written corresponds to exactly one payload of exactly one
\* scan_qr_code call; the entries are in iteration order and, within an
\* iteration, in the order of the returned list without gaps; the timestamps
\* of the entries are non-decreasing.
C7_LogInIterationOrder ==
    /\ Len(Appended) = Len(origin)
    /\ \A k \in DOMAIN origin :
         /\ origin[k][1] \in 1..iter
         /\ origin[k][2] \in 1..Len(hist[origin[k][1]].codes)
         /\ Appended[k][2] = hist[origin[k][1]].codes[origin[k][2]]
    /\ \A k, l \in DOMAIN origin :
         k < l => /\ \/ origin[k][1] < origin[l][1]
                     \/ origin[k][1] = origin[l][1] /\ origin[k][2] < origin[l][2]
                  /\ Appended[k][1] <= Appended[l][1]
    /\ [k \in DOMAIN Appended |-> Appended[k][2]] = PayloadsLogged(iter)

C7_Witness ==
    /\ iter = 2
    /\ hist[1].codes = << "A" >> /\ hist[1].slept
    /\ hist[2].codes = << "B", "A" >> /\ hist[2].slept
    /\ Appended = << <<0, "A">>, <<1, "B">>, <<1, "A">> >>

\* ---- C8 ----
\* C8: the log is append-only: every step leaves the log it found as a prefix
\* of the log it leaves, and the content the file had when log_laps started
\* stays a prefix of it.
C8_AppendOnly ==
    [][ IsPrefix(log, log') /\ IsPrefix(initialLog, log') ]_vars

C8_Witness ==
    /\ initialLog # << >>
    /\ IsPrefix(initialLog, log)
    /\ Len(log) >= Len(initialLog) + 3
    /\ pc = "stopped"

\* ---- C9 ----
\* C9: when open fails the run aborts before RUNNING: no capture, decode,
\* append, sleep or report has happened or happens; RUNNING is entered only
\* with the file acquired; and no other error ends the run (a run that ended
\* without cancellation ended at the open).
C9_OpenFailureAborts ==
    [][ /\ pc' = "aborted" =>
             /\ pc \in {"start", "aborted"}
             /\ iter' = 0 /\ hist' = << >> /\ console' = << >>
             /\ log' = initialLog' /\ opens' = 0 /\ ~fileOpen' /\ now' = 0
        /\ pc = "aborted" => FALSE
        /\ pc' \in Running => opens' = 1 /\ fileOpen'
        /\ pc' \in {"aborted", "stopped"} /\ ~cancelled' => pc = "start"
      ]_vars

C9_Witness ==
    /\ pc = "aborted"
    /\ opens = 0
    /\ log = initialLog
    /\ initialLog # << >>

\* ---- C10 ----
\* C10: the file is opened at most once, before the first iteration; it is
\* open whenever the loop is RUNNING or handling the interrupt; it is closed
\* once log_laps has been left.
C10_HandleLifetime ==
    /\ opens <= 1
    /\ pc \in Running \cup {"interrupt"} => fileOpen /\ opens = 1
    /\ pc \in {"start", "aborted", "stopped"} => ~fileOpen
    /\ iter > 0 => opens = 1

C10_Witness ==
    /\ pc = "stopped"
    /\ opens = 1
    /\ ~fileOpen
    /\ iter = 2
    /\ intAt = "capture"
    /\ console[Len(console)] = <<"Logging stopped.">>

TypeOK ==
    /\ pc \in {"start", "aborted", "capture", "scan", "check", "write", "sleep",
               "report", "interrupt", "stopped"}
    /\ fileOpen \in BOOLEAN
    /\ iter \in 0..MaxIter
    /\ Len(hist) = iter
    /\ Len(origin) + Len(initialLog) = Len(log)
====
